---- MODULE Spec2Model ----
(***************************************************************************)
(* mitchrs: the device sessions (Mitch), the registry (MitchList), the     *)
(* control loop (App::run) and the discovery task (BtleDiscoverTask::run), *)
(* as a state machine over an abstract radio.                              *)
(***************************************************************************)
EXTENDS Integers, Sequences, FiniteSets, TLC

(* ------------------------------ bounds --------------------------------- *)
\* sessions the discovery task creates in one run
MaxSessions == 2
\* events waiting in the channel (AppEvent and BluetoothEvent)
MaxQueue == 1
\* cap of `active` (a release build lets it grow on an empty registry)
MaxActive == 2

(* ------------------------- protocol codec ------------------------------ *)
None == "None"

MitchState ==
    { "SysStartup", "SysIdle", "SysStandby", "SysLog", "SysReadout",
      "SysTx", "SysError", "BootStartup", "BootIdle", "BootDownload" }

\* #[repr(u8)] discriminant of each variant
Discriminant(s) ==
    CASE s = "SysStartup"   -> 1
      [] s = "SysIdle"      -> 2
      [] s = "SysStandby"   -> 3
      [] s = "SysLog"       -> 4
      [] s = "SysReadout"   -> 5
      [] s = "SysTx"        -> 248
      [] s = "SysError"     -> 255
      [] s = "BootStartup"  -> 240
      [] s = "BootIdle"     -> 241
      [] s = "BootDownload" -> 242

\* the range check of try_from, were it to leave out 0xff
TryFromAcceptsBelowFF(value) ==
    \/ (1 <= value /\ value <= 5)
    \/ value = 248
    \/ value = 240
    \/ value = 241
    \/ value = 242

\* the range check of try_from
TryFromAccepts(value) ==
    \/ (1 <= value /\ value <= 5)
    \/ value = 248
    \/ value = 255
    \/ value = 240
    \/ value = 241
    \/ value = 242

\* the reinterpretation of the byte as the enum: the variant with that discriminant
Transmute(value) == CHOOSE s \in MitchState : Discriminant(s) = value

\* impl TryFrom<u8> for MitchState
try_from(value) ==
    IF TryFromAccepts(value)
    THEN [ok |-> TRUE, state |-> Transmute(value)]
    ELSE [ok |-> FALSE, state |-> None]

\* impl AsRef<[u8]> for Commands
as_ref(cmd) ==
    CASE cmd = "GetState"    -> <<130, 0>>
      [] cmd = "StartStream" -> <<2, 3, 248, 4, 4>>
      [] cmd = "StopStream"  -> <<2, 1, 2>>

(* --------------------------- the radio --------------------------------- *)
\* the peripherals in range, with their advertised local names (ASCII codes):
\* 1 "MITCH-07", 2 "other-device", 3 advertises no name
Peripherals == 1..3

\* properties.and_then(|p| p.local_name)
LocalName(p) ==
    CASE p = 1 -> <<77, 73, 84, 67, 72, 45, 48, 55>>
      [] p = 2 -> <<111, 116, 104, 101, 114, 45, 100, 101, 118, 105, 99, 101>>
      [] p = 3 -> None

\* Option<String>::unwrap_or_default
unwrap_or_default(name) == IF name = None THEN <<>> ELSE name

\* the frames a device answers a read of the command characteristic with:
\* SysIdle at offset 4, an unknown code at offset 4 (known ones before it),
\* and a frame shorter than 5 bytes
Responses == { <<0, 0, 0, 0, 2>>, <<2, 2, 2, 2, 6>>, <<2, 2>> }

\* one radio call of a handler, as recorded in `log`; s is the place in the
\* registry of the session that made it, filled in by the registry
Call(p, op, ok, data) == [s |-> 0, per |-> p, op |-> op, ok |-> ok, data |-> data]

\* the calls of lg, as made by session i of the registry
By(i, lg) == [j \in 1..Len(lg) |-> [lg[j] EXCEPT !.s = i]] \o <<>>

\* per.connect(): opens the link or fails
PerConnect(r, p) ==
    { [ok |-> TRUE, r |-> [r EXCEPT !.link[p] = TRUE]], [ok |-> FALSE, r |-> r] }

\* per.discover_services(): needs the link; fills per.characteristics()
PerDiscover(r, p) ==
    { [ok |-> FALSE, r |-> r] } \cup
    IF r.link[p] THEN { [ok |-> TRUE, r |-> [r EXCEPT !.chars[p] = TRUE]] } ELSE {}

\* per.disconnect(): closes the link or fails
PerDisconnect(r, p) ==
    { [ok |-> TRUE, r |-> [r EXCEPT !.link[p] = FALSE]], [ok |-> FALSE, r |-> r] }

\* per.write(..) / per.subscribe(..): succeeds only over an open link
PerWrite(r, p) == IF r.link[p] THEN {TRUE, FALSE} ELSE {FALSE}

\* per.read(cmd_char): a frame over an open link, or a failure
PerRead(r, p) ==
    { [ok |-> FALSE, data |-> <<>>] } \cup
    IF r.link[p] THEN { [ok |-> TRUE, data |-> d] : d \in Responses } ELSE {}

(* ------------------------- device session ------------------------------ *)
\* Mitch::new: a session of peripheral p, not connected, no state
new(name, p) == [name |-> name, per |-> p, connected |-> FALSE, state |-> None]

\* what one method call leaves: the session, the radio, Ok / Err / Panic, the calls made
Outcome(m, r, res, log) == [m |-> m, r |-> r, res |-> res, log |-> log]

\* connect, were it to mark the session once the link is open, before the
\* service discovery
connect_before_discovery(m, r) ==
    IF m.connected THEN { Outcome(m, r, "Ok", <<>>) }
    ELSE UNION { IF ~c.ok
                 THEN { Outcome(m, c.r, "Err", <<Call(m.per, "connect", FALSE, <<>>)>>) }
                 ELSE { Outcome([m EXCEPT !.connected = TRUE], d.r,
                                IF d.ok THEN "Ok" ELSE "Err",
                                << Call(m.per, "connect", TRUE, <<>>),
                                   Call(m.per, "discover_services", d.ok, <<>>) >>)
                        : d \in PerDiscover(c.r, m.per) }
                 : c \in PerConnect(r, m.per) }

\* Mitch::connect
connect(m, r) ==
    IF m.connected THEN { Outcome(m, r, "Ok", <<>>) }
    ELSE UNION { IF ~c.ok
                 THEN { Outcome(m, c.r, "Err", <<Call(m.per, "connect", FALSE, <<>>)>>) }
                 ELSE { IF ~d.ok
                        THEN Outcome(m, d.r, "Err",
                                     << Call(m.per, "connect", TRUE, <<>>),
                                        Call(m.per, "discover_services", FALSE, <<>>) >>)
                        ELSE Outcome([m EXCEPT !.connected = TRUE], d.r, "Ok",
                                     << Call(m.per, "connect", TRUE, <<>>),
                                        Call(m.per, "discover_services", TRUE, <<>>) >>)
                        : d \in PerDiscover(c.r, m.per) }
                 : c \in PerConnect(r, m.per) }

\* Mitch::disconnect
disconnect(m, r) ==
    IF ~m.connected THEN { Outcome(m, r, "Ok", <<>>) }
    ELSE { IF ~c.ok
           THEN Outcome(m, c.r, "Err", <<Call(m.per, "disconnect", FALSE, <<>>)>>)
           ELSE Outcome([m EXCEPT !.connected = FALSE], c.r, "Ok",
                        <<Call(m.per, "disconnect", TRUE, <<>>)>>)
           : c \in PerDisconnect(r, m.per) }

\* the tail of update_state, were it to decode the byte at offset 3
StoreStateOffset3(m, r, log, data) ==
    IF Len(data) < 4 THEN Outcome(m, r, "Panic", log)
    ELSE IF ~try_from(data[4]).ok THEN Outcome(m, r, "Err", log)
    ELSE Outcome([m EXCEPT !.state = try_from(data[4]).state], r, "Ok", log)

\* the tail of update_state: decode the frame that was read and store the state
StoreState(m, r, log, data) ==
    IF Len(data) < 5 THEN Outcome(m, r, "Panic", log)
    ELSE IF ~try_from(data[5]).ok THEN Outcome(m, r, "Err", log)
    ELSE Outcome([m EXCEPT !.state = try_from(data[5]).state], r, "Ok", log)

\* a failed write or read of update_state, were it to mark the session disconnected
PollFailedDisconnects(m, r, log) ==
    Outcome([m EXCEPT !.connected = FALSE], r, "Err", log)

\* the `?` of update_state on a failed write or read: the error is returned
PollFailed(m, r, log) == Outcome(m, r, "Err", log)

\* the poll of a session that is not connected, were it to leave the state
PollDisconnectedKeepsState(m, r) == Outcome(m, r, "Ok", <<>>)

\* the head of update_state: a session that is not connected has no state
PollDisconnected(m, r) == Outcome([m EXCEPT !.state = None], r, "Ok", <<>>)

\* Mitch::update_state
update_state(m, r) ==
    IF ~m.connected THEN { PollDisconnected(m, r) }
    ELSE IF ~r.chars[m.per] THEN { Outcome(m, r, "Panic", <<>>) }
    ELSE UNION { IF ~w
                 THEN { PollFailed(m, r,
                                   <<Call(m.per, "write", FALSE, as_ref("GetState"))>>) }
                 ELSE { IF ~x.ok
                        THEN PollFailed(m, r,
                                        << Call(m.per, "write", TRUE, as_ref("GetState")),
                                           Call(m.per, "read", FALSE, <<>>) >>)
                        ELSE StoreState(m, r,
                                        << Call(m.per, "write", TRUE, as_ref("GetState")),
                                           Call(m.per, "read", TRUE, x.data) >>,
                                        x.data)
                        : x \in PerRead(r, m.per) }
                 : w \in PerWrite(r, m.per) }

\* the tail of start_recording and stop_recording, were it to write the
\* command frame and leave the response unread
WriteNoRead(m, r, log, cmd) ==
    { Outcome(m, r, IF w THEN "Ok" ELSE "Err",
              Append(log, Call(m.per, "write", w, as_ref(cmd))))
      : w \in PerWrite(r, m.per) }

\* the shared tail of start_recording and stop_recording: write the command
\* frame, then the confirming read, whose content is dropped
WriteThenRead(m, r, log, cmd) ==
    UNION { IF ~w
            THEN { Outcome(m, r, "Err",
                           Append(log, Call(m.per, "write", FALSE, as_ref(cmd)))) }
            ELSE { Outcome(m, r, IF x.ok THEN "Ok" ELSE "Err",
                           log \o << Call(m.per, "write", TRUE, as_ref(cmd)),
                                     Call(m.per, "read", x.ok, <<>>) >>)
                   : x \in PerRead(r, m.per) }
            : w \in PerWrite(r, m.per) }

\* Mitch::start_recording
start_recording(m, r) ==
    IF ~r.chars[m.per] THEN { Outcome(m, r, "Panic", <<>>) }
    ELSE UNION { IF ~s
                 THEN { Outcome(m, r, "Err", <<Call(m.per, "subscribe", FALSE, <<>>)>>) }
                 ELSE WriteThenRead(m, r, <<Call(m.per, "subscribe", TRUE, <<>>)>>,
                                    "StartStream")
                 : s \in PerWrite(r, m.per) }

\* Mitch::stop_recording
stop_recording(m, r) ==
    IF ~r.chars[m.per] THEN { Outcome(m, r, "Panic", <<>>) }
    ELSE WriteThenRead(m, r, <<>>, "StopStream")

\* impl Drop for Mitch: a connected session closes the link, whatever the result
drop(m, r) ==
    IF ~m.connected THEN { r } ELSE { c.r : c \in PerDisconnect(r, m.per) }

(* ------------------------- device registry ----------------------------- *)
\* insert, were it to put the session first
insert_first(inner, mitch) == <<mitch>> \o inner

\* MitchList::insert
insert(inner, mitch) == Append(inner, mitch)

\* MitchList::len
len(inner) == Len(inner)

\* MitchList::is_empty
is_empty(inner) == len(inner) = 0

\* the bounds check of get_active / get_active_mut (`active` counts from 0)
InBounds(inner, act) == act < len(inner)

\* MitchList::get_active / get_active_mut, where the index is in bounds
get_active(inner, act) == inner[act + 1]

\* what a poll, and the disconnect that follows a failed one, left of a session
\* (res: of update_state; was, conn: connected before and after update_state;
\* disc: of the disconnect, "None" where none was attempted)
NotPolled == [res |-> "NotPolled", was |-> FALSE, conn |-> FALSE, disc |-> "None"]
Polled(res, was, conn, disc) == [res |-> res, was |-> was, conn |-> conn, disc |-> disc]

\* k sessions the loop did not reach
Unreached(k) == IF k = 0 THEN <<>> ELSE [j \in 1..k |-> NotPolled] \o <<>>

\* the loop of MitchList::update from session i down to the first one;
\* st.polls tells of the sessions after i
RECURSIVE UpdateFrom(_, _)
UpdateFrom(i, st) ==
    IF i = 0 THEN { st }
    ELSE UNION {
        CASE o.res = "Panic" ->
               { [st EXCEPT !.inner[i] = o.m, !.r = o.r, !.res = "Panic",
                            !.log = st.log \o By(i, o.log),
                            !.polls = Unreached(i - 1)
                                      \o <<Polled("Panic", st.inner[i].connected, o.m.connected, "None")>>
                                      \o st.polls] }
          [] o.res = "Ok" ->
               UNION { UpdateFrom(i - 1, n) : n \in {
                   [st EXCEPT !.inner[i] = o.m, !.r = o.r,
                              !.log = st.log \o By(i, o.log),
                              !.polls = <<Polled("Ok", st.inner[i].connected, o.m.connected, "None")>>
                                        \o st.polls] } }
          [] o.res = "Err" ->
               UNION { UpdateFrom(i - 1, n) : n \in {
                   [st EXCEPT !.inner[i] = d.m, !.r = d.r,
                              !.log = st.log \o By(i, o.log \o d.log),
                              !.polls = <<Polled("Err", st.inner[i].connected, o.m.connected, d.res)>>
                                        \o st.polls]
                   : d \in disconnect(o.m, o.r) } }
        : o \in update_state(st.inner[i], st.r) }

\* MitchList::update
update(inner, r) ==
    UpdateFrom(len(inner),
               [inner |-> inner, r |-> r, res |-> "Ok", log |-> <<>>, polls |-> <<>>])

\* the sessions of the registry are dropped with the App, first to last
RECURSIVE DropFrom(_, _, _)
DropFrom(i, inner, r) ==
    IF i > len(inner) THEN { r }
    ELSE UNION { DropFrom(i + 1, inner, r2) : r2 \in drop(inner[i], r) }

(* ------------------------- discovery filter ---------------------------- *)
\* str::to_lowercase on ASCII
to_lowercase(name) ==
    [i \in 1..Len(name) |-> IF 65 <= name[i] /\ name[i] <= 90 THEN name[i] + 32
                            ELSE name[i]]

\* "mitch"
Prefix == <<109, 105, 116, 99, 104>>

\* str::starts_with
starts_with(name, prefix) ==
    /\ Len(name) >= Len(prefix)
    /\ \A i \in 1..Len(prefix) : name[i] = prefix[i]

\* the name the discovery task gives a peripheral: the advertised local name,
\* empty where there is none, in lower case
Name(p) == to_lowercase(unwrap_or_default(LocalName(p)))

(* ----------------------------- state ----------------------------------- *)
VARIABLES
    inner,            \* MitchList.inner: the sessions, in insertion order
    active,           \* MitchList.active, counted from 0
    app_state,        \* App.state: "Menu" or "Mitch"
    result,           \* of App::run: "Running", then "Ok", "Err" or "Panic"
    events,           \* the event channel: AppEvents and BluetoothEvents in flight
    radio,            \* per peripheral: link open, characteristics discovered
    overflow_checks,  \* the build panics on integer overflow (debug) or wraps
    dpc,              \* BtleDiscoverTask::run: "start", "scan", "sleep1", "sleep2", and
                      \* returned: "not_active", "failed" (an error), "done" (stream over)
    dcur,             \* the peripheral of the discovery event the task took last
    seen,             \* the peripherals the radio has reported
    created,          \* sessions created so far
    last,             \* the step taken last, with its result
    log               \* the radio calls the step taken last made, in order

vars == << inner, active, app_state, result, events, radio, overflow_checks,
           dpc, dcur, seen, created, last, log >>

\* usize::MAX, as far as integers go here: above every value `active + 1` takes
USIZE_MAX == 2147483647

\* the step taken last: what ran, on which place of the registry, its result,
\* what it found (`was`) and, for update, what became of every session
Last(op, idx, res, was, polls) ==
    [op |-> op, idx |-> idx, res |-> res, was |-> was, polls |-> polls]

\* an event of the channel; only Discovered carries a session
Event(ev, mitch) == [ev |-> ev, mitch |-> mitch]
AppEvent(ev) == Event(ev, new(<<>>, 0))

Init ==
    /\ inner = <<>>
    /\ active = 0
    /\ app_state = "Menu"
    /\ result = "Running"
    /\ events = <<>>
    /\ radio = [link |-> [p \in Peripherals |-> FALSE],
                chars |-> [p \in Peripherals |-> FALSE]]
    /\ overflow_checks \in BOOLEAN
    /\ dpc = "start"
    /\ dcur = 0
    /\ seen = {}
    /\ created = 0
    /\ last = Last("new", 0, "Ok", FALSE, <<>>)
    /\ log = <<>>

(* ------------------------- the control loop ---------------------------- *)
\* terminal.draw at the head of every iteration: render_mitch reads the active session
DrawPanics == app_state = "Mitch" /\ ~InBounds(inner, active)

\* one iteration of the loop of App::run ends: the loop goes on, or run returns
\* (or unwinds) and the App is dropped with its sessions
Iteration(inn, act, r, res, lg, lst) ==
    /\ inner' = inn
    /\ active' = act
    /\ log' = lg
    /\ last' = lst
    /\ IF res = "Running"
       THEN result' = "Running" /\ radio' = r
       ELSE result' = res /\ radio' \in DropFrom(1, inn, r)

Discovery == << dpc, dcur, seen, created >>

\* the draw of an iteration fails: get_active is out of bounds
Draw ==
    /\ result = "Running"
    /\ DrawPanics
    /\ Iteration(inner, active, radio, "Panic", <<>>,
                 Last("draw", active, "Panic", FALSE, <<>>))
    /\ UNCHANGED << app_state, events, overflow_checks, Discovery >>

\* App::tick
tick(inn, r) == update(inn, r)

\* Event::Tick
Tick ==
    /\ result = "Running"
    /\ ~DrawPanics
    /\ UNCHANGED << app_state, events, overflow_checks, Discovery >>
    /\ \E st \in tick(inner, radio) :
          Iteration(st.inner, active, st.r,
                    IF st.res = "Ok" THEN "Running" ELSE st.res,
                    st.log, Last("update", 0, st.res, FALSE, st.polls))

Keys == { "Release", "Esc", "q", "CtrlC", "Up", "Down", "Enter", "c", "d", "r", "s", "Other" }

\* App::handle_key_events: the new App.state and the AppEvent sent, if any
handle_key_events(st, key) ==
    IF key = "Release" THEN [state |-> st, send |-> "None"]
    ELSE IF st = "Menu"
    THEN CASE key \in {"Esc", "q"} -> [state |-> st, send |-> "Quit"]
           [] key = "CtrlC"        -> [state |-> st, send |-> "Quit"]
           [] key = "Up"           -> [state |-> st, send |-> "PrevMitch"]
           [] key = "Down"         -> [state |-> st, send |-> "NextMitch"]
           [] key = "Enter"        -> [state |-> "Mitch", send |-> "None"]
           [] OTHER                -> [state |-> st, send |-> "None"]
    ELSE CASE key \in {"Esc", "q"} -> [state |-> "Menu", send |-> "None"]
           [] key = "CtrlC"        -> [state |-> st, send |-> "Quit"]
           [] key = "c"            -> [state |-> st, send |-> "Connect"]
           [] key = "d"            -> [state |-> st, send |-> "Disconnect"]
           [] key = "r"            -> [state |-> st, send |-> "StartRecord"]
           [] key = "s"            -> [state |-> st, send |-> "StopRecord"]
           [] OTHER                -> [state |-> st, send |-> "None"]

\* Event::Crossterm(Key)
Key ==
    /\ result = "Running"
    /\ ~DrawPanics
    /\ \E key \in Keys :
          LET h == handle_key_events(app_state, key) IN
          /\ app_state' = h.state
          /\ IF h.send = "None" THEN events' = events
             ELSE /\ Len(events) < MaxQueue
                  /\ events' = Append(events, AppEvent(h.send))
          /\ last' = Last("key", 0, "Ok", FALSE, <<>>)
    /\ log' = <<>>
    /\ UNCHANGED << inner, active, result, radio, overflow_checks, Discovery >>

\* the next event of the channel is ev
Received(ev) ==
    /\ result = "Running"
    /\ ~DrawPanics
    /\ events # <<>>
    /\ Head(events).ev = ev
    /\ events' = Tail(events)

\* App::quit, and the loop that ends on `running`
Quit ==
    /\ Received("Quit")
    /\ Iteration(inner, active, radio, "Ok", <<>>, Last("quit", 0, "Ok", FALSE, <<>>))
    /\ UNCHANGED << app_state, overflow_checks, Discovery >>

\* App::prev
prev(act) == IF act = 0 THEN 0 ELSE act - 1

PrevMitch ==
    /\ Received("PrevMitch")
    /\ Iteration(inner, prev(active), radio, "Running", <<>>,
                 Last("prev", active, "Ok", FALSE, <<>>))
    /\ UNCHANGED << app_state, overflow_checks, Discovery >>

Min(a, b) == IF a <= b THEN a ELSE b

\* `self.mitches.len() - 1` on usize: overflows on an empty registry
LenMinusOne(n, checks) ==
    IF n > 0 THEN [ok |-> TRUE, v |-> n - 1]
    ELSE IF checks THEN [ok |-> FALSE, v |-> 0]
    ELSE [ok |-> TRUE, v |-> USIZE_MAX]

\* App::next
next(act, n, checks) ==
    IF LenMinusOne(n, checks).ok
    THEN [ok |-> TRUE, active |-> Min(act + 1, LenMinusOne(n, checks).v)]
    ELSE [ok |-> FALSE, active |-> act]

NextMitch ==
    /\ Received("NextMitch")
    /\ LET n == next(active, len(inner), overflow_checks) IN
       /\ n.active <= MaxActive
       /\ Iteration(inner, n.active, radio, IF n.ok THEN "Running" ELSE "Panic", <<>>,
                    Last("next", active, IF n.ok THEN "Ok" ELSE "Panic", FALSE, <<>>))
    /\ UNCHANGED << app_state, overflow_checks, Discovery >>

\* an AppEvent routed to the active session: get_active_mut, then the method,
\* whose outcomes are `outcomes`, then `?`
OnActive(op, outcomes) ==
    IF ~InBounds(inner, active)
    THEN Iteration(inner, active, radio, "Panic", <<>>,
                   Last(op, active, "Panic", FALSE, <<>>))
    ELSE \E o \in outcomes :
            Iteration([inner EXCEPT ![active + 1] = o.m], active, o.r,
                      IF o.res = "Ok" THEN "Running" ELSE o.res,
                      By(active + 1, o.log),
                      Last(op, active, o.res, get_active(inner, active).connected, <<>>))

\* AppEvent::Connect
Connect ==
    /\ Received("Connect")
    /\ OnActive("connect",
                IF InBounds(inner, active)
                THEN connect(get_active(inner, active), radio) ELSE {})
    /\ UNCHANGED << app_state, overflow_checks, Discovery >>

\* AppEvent::Disconnect
Disconnect ==
    /\ Received("Disconnect")
    /\ OnActive("disconnect",
                IF InBounds(inner, active)
                THEN disconnect(get_active(inner, active), radio) ELSE {})
    /\ UNCHANGED << app_state, overflow_checks, Discovery >>

\* AppEvent::StartRecord
StartRecord ==
    /\ Received("StartRecord")
    /\ OnActive("start_recording",
                IF InBounds(inner, active)
                THEN start_recording(get_active(inner, active), radio) ELSE {})
    /\ UNCHANGED << app_state, overflow_checks, Discovery >>

\* AppEvent::StopRecord
StopRecord ==
    /\ Received("StopRecord")
    /\ OnActive("stop_recording",
                IF InBounds(inner, active)
                THEN stop_recording(get_active(inner, active), radio) ELSE {})
    /\ UNCHANGED << app_state, overflow_checks, Discovery >>

\* BluetoothEvent::Discovered
Discovered ==
    /\ Received("Discovered")
    /\ Iteration(insert(inner, Head(events).mitch), active, radio,
                 "Running", <<>>,
                 Last("insert", len(inner), "Ok",
                      [inner |-> inner, active |-> active, mitch |-> Head(events).mitch],
                      <<>>))
    /\ UNCHANGED << app_state, overflow_checks, Discovery >>

\* the NotActive arm, were it to go on with the loop
NotActiveIgnored ==
    /\ Received("NotActive")
    /\ Iteration(inner, active, radio, "Running", <<>>,
                 Last("not_active", 0, "Ok", FALSE, <<>>))
    /\ UNCHANGED << app_state, overflow_checks, Discovery >>

\* BluetoothEvent::NotActive
NotActive ==
    /\ Received("NotActive")
    /\ Iteration(inner, active, radio, "Err", <<>>,
                 Last("not_active", 0, "Err", FALSE, <<>>))
    /\ UNCHANGED << app_state, overflow_checks, Discovery >>

(* ------------------------- the discovery task -------------------------- *)
\* BtleDiscoverTask::send: the result of the send is dropped, so a send to a
\* channel whose receiver is gone changes nothing
send(ev) ==
    IF result = "Running"
    THEN /\ Len(events) < MaxQueue
         /\ events' = Append(events, ev)
    ELSE events' = events

\* a step of the task leaves the App and the radio alone
TaskStep(op, res) ==
    /\ last' = Last(op, 0, res, FALSE, <<>>)
    /\ log' = <<>>
    /\ UNCHANGED << inner, active, app_state, result, radio, overflow_checks >>

\* the head of BtleDiscoverTask::run: the adapter, its power state, the scan
DiscoverStart ==
    /\ dpc = "start"
    /\ \/ /\ send(Event("NotActive", new(<<>>, 0)))   \* not PoweredOn
          /\ dpc' = "not_active"
          /\ TaskStep("discover_start", "Ok")
       \/ /\ dpc' = "scan"                             \* PoweredOn, the scan started
          /\ events' = events
          /\ TaskStep("discover_start", "Ok")
       \/ /\ dpc' = "failed"                           \* Manager::new / events / start_scan `?`
          /\ events' = events
          /\ TaskStep("discover_start", "Err")
    /\ UNCHANGED << dcur, seen, created >>

\* CentralEvent::DeviceDiscovered(p): peripheral(), properties(), the name filter
\* and the first Discovered event
DeviceDiscovered ==
    /\ dpc = "scan"
    /\ \E p \in Peripherals \ seen :
          /\ seen' = seen \cup {p}
          /\ \/ /\ dpc' = "failed"                     \* peripheral() / properties() `?`
                /\ dcur' = p
                /\ TaskStep("device_discovered", "Err")
                /\ UNCHANGED << events, created >>
             \/ /\ IF starts_with(Name(p), Prefix)
                   THEN /\ created < MaxSessions
                        /\ send(Event("Discovered", new(Name(p), p)))
                        /\ created' = created + 1
                        /\ dpc' = "sleep1"
                   ELSE UNCHANGED << events, dpc, created >>
                /\ dcur' = p
                /\ TaskStep("device_discovered", "Ok")

\* after each sleep the task sends one more session of the same peripheral
DiscoveredAgain ==
    /\ dpc \in {"sleep1", "sleep2"}
    /\ created < MaxSessions
    /\ send(Event("Discovered", new(Name(dcur), dcur)))
    /\ created' = created + 1
    /\ dpc' = IF dpc = "sleep1" THEN "sleep2" ELSE "scan"
    /\ TaskStep("discovered_again", "Ok")
    /\ UNCHANGED << dcur, seen >>

\* any other CentralEvent
OtherEvent ==
    /\ dpc = "scan"
    /\ TaskStep("other_event", "Ok")
    /\ UNCHANGED << events, Discovery >>

\* the discovery stream ends
StreamEnd ==
    /\ dpc = "scan"
    /\ dpc' = "done"
    /\ TaskStep("stream_end", "Ok")
    /\ UNCHANGED << events, dcur, seen, created >>

(* ----------------------------- the radio ------------------------------- *)
\* the link of a peripheral drops
LinkLoss ==
    /\ \E p \in Peripherals :
          /\ radio.link[p]
          /\ radio' = [radio EXCEPT !.link[p] = FALSE]
    /\ last' = Last("link_loss", 0, "Ok", FALSE, <<>>)
    /\ log' = <<>>
    /\ UNCHANGED << inner, active, app_state, result, events, overflow_checks, Discovery >>

Next ==
    \/ Draw
    \/ Tick
    \/ Key
    \/ Quit
    \/ PrevMitch
    \/ NextMitch
    \/ Connect
    \/ Disconnect
    \/ StartRecord
    \/ StopRecord
    \/ Discovered
    \/ NotActive
    \/ DiscoverStart
    \/ DeviceDiscovered
    \/ DiscoveredAgain
    \/ OtherEvent
    \/ StreamEnd
    \/ LinkLoss

Spec == Init /\ [][Next]_vars

(* ------------------ the control loop on its own ------------------------ *)
AppEvents ==
    { "Quit", "PrevMitch", "NextMitch", "Connect", "Disconnect", "StopRecord",
      "StartRecord" }

\* the peripherals the discovery task makes sessions of
Mitches == { p \in Peripherals : starts_with(Name(p), Prefix) }

\* an event reaches the empty channel, from whatever source: any AppEvent,
\* NotActive, or a new session of a peripheral that passes the name filter
Arrive ==
    /\ result = "Running"
    /\ events = <<>>
    /\ \/ /\ \E ev \in AppEvents \cup {"NotActive"} : events' = <<AppEvent(ev)>>
          /\ created' = created
       \/ /\ created < MaxSessions
          /\ \E p \in Mitches :
                events' = <<Event("Discovered", new(Name(p), p))>>
          /\ created' = created + 1
    /\ last' = Last("arrive", 0, "Ok", FALSE, <<>>)
    /\ log' = <<>>
    /\ UNCHANGED << inner, active, app_state, result, radio, overflow_checks,
                    dpc, dcur, seen >>

NextLoop ==
    \/ Arrive
    \/ Tick
    \/ Quit
    \/ PrevMitch
    \/ NextMitch
    \/ Connect
    \/ Disconnect
    \/ StartRecord
    \/ StopRecord
    \/ Discovered
    \/ NotActive
    \/ LinkLoss

\* App::run fed by an arbitrary event source, one event in flight
SpecLoop == Init /\ [][NextLoop]_vars

(* ---------------------- the tick loop on its own ----------------------- *)
\* the events that act on the active session
SessionEvents == { "Connect", "Disconnect", "StopRecord", "StartRecord" }

\* an event reaches the empty channel while the user stays on the session
\* selected at start: an event for the active session, or a new session of a
\* peripheral that passes the name filter
ArriveForActive ==
    /\ result = "Running"
    /\ events = <<>>
    /\ \/ /\ \E ev \in SessionEvents : events' = <<AppEvent(ev)>>
          /\ created' = created
       \/ /\ created < MaxSessions
          /\ \E p \in Mitches :
                events' = <<Event("Discovered", new(Name(p), p))>>
          /\ created' = created + 1
    /\ last' = Last("arrive", 0, "Ok", FALSE, <<>>)
    /\ log' = <<>>
    /\ UNCHANGED << inner, active, app_state, result, radio, overflow_checks,
                    dpc, dcur, seen >>

NextTicks ==
    \/ ArriveForActive
    \/ Tick
    \/ Connect
    \/ Disconnect
    \/ StartRecord
    \/ StopRecord
    \/ Discovered
    \/ LinkLoss

\* App::run while the tick timer keeps firing: a Tick that can be handled is
\* handled in the end
SpecTicks == Init /\ [][NextTicks]_vars /\ WF_vars(Tick)

(* ------------- the discovery task and the control loop ----------------- *)
NextDiscovery ==
    \/ Draw
    \/ Key
    \/ Quit
    \/ PrevMitch
    \/ NextMitch
    \/ Connect
    \/ Disconnect
    \/ StartRecord
    \/ StopRecord
    \/ Discovered
    \/ NotActive
    \/ DiscoverStart
    \/ DeviceDiscovered
    \/ DiscoveredAgain
    \/ OtherEvent
    \/ StreamEnd

\* the discovery task and App::run while no tick arrives and no link drops
SpecDiscovery == Init /\ [][NextDiscovery]_vars

(* ------------------------ the codec on its own ------------------------ *)
\* the values of a u8
Bytes == 0..255

\* a GetState response with byte b at offset 4 is decoded: MitchState::try_from
\* of that byte, as update_state calls it
Decode ==
    /\ \E b \in Bytes :
          LET data == <<0, 0, 0, 0, b>>
              t == try_from(data[5])
          IN last' = Last("try_from", b, IF t.ok THEN "Ok" ELSE "Err", t.state, <<>>)
    /\ log' = <<>>
    /\ UNCHANGED << inner, active, app_state, result, events, radio, overflow_checks,
                    Discovery >>

NextCodec == Decode

SpecCodec == Init /\ [][NextCodec]_vars

(* ------------------------------ claims --------------------------------- *)
Sessions == 1..Len(inner)

\* the calls session i made in the step taken last, of the kinds in ops
CallsOf(i, ops) == SelectSeq(log, LAMBDA c : c.s = i /\ c.op \in ops)

\* C1: whenever a session is Disconnected its operating state is None, after
\* every connect, disconnect and poll of a running control loop.
C1_NoStateWhenDisconnected ==
    result = "Running" =>
        \A i \in Sessions : ~inner[i].connected => inner[i].state = None

\* C2: after a disconnect attempt on a session, be it the user's or the one
\* refresh_all makes after a failed poll, and whether or not the radio closed
\* the link, the session is Disconnected.
C2_DisconnectedAfterAttempt ==
    /\ (last.op = "disconnect" /\ last.res \in {"Ok", "Err"})
           => ~inner[last.idx + 1].connected
    /\ last.op = "update"
           => \A i \in Sessions : last.polls[i].disc # "None" => ~inner[i].connected

\* C3: refresh_all returns success whatever polls fail; it polls every session,
\* attempts a disconnect on each session whose poll failed and on no other,
\* and a session whose poll succeeded holds the state its poll stored.
C3_RefreshAllIsolatesFaults ==
    last.op = "update" =>
        /\ last.res = "Ok"
        /\ \A i \in Sessions :
              /\ last.polls[i].res \in {"Ok", "Err"}
              /\ last.polls[i].res = "Err" <=> last.polls[i].disc # "None"
              /\ last.polls[i].res = "Err" <=> CallsOf(i, {"disconnect"}) # <<>>

\* C4: a session whose poll failed during refresh_all is Disconnected with
\* operating state None when refresh_all returns.
C4_FailedPollLeavesDisconnectedNone ==
    (last.op = "update" /\ last.res = "Ok") =>
        \A i \in Sessions :
            last.polls[i].res = "Err" =>
                ~inner[i].connected /\ inner[i].state = None

\* C5: while the control loop runs, a non-empty registry has 0 <= active < length.
C5_ActiveInRange ==
    (result = "Running" /\ ~is_empty(inner)) => (0 <= active /\ active < len(inner))

\* C6: select_next and select_previous on an empty registry do not fail and
\* leave active as it was.
C6_EmptyNavigationIsNoOp ==
    (last.op \in {"next", "prev"} /\ is_empty(inner)) =>
        last.res = "Ok" /\ active = last.idx

\* C7: insert appends the session at the end, keeps the sessions already
\* present as they were and in their order, and leaves active unchanged.
C7_InsertAppends ==
    last.op = "insert" =>
        /\ Len(inner) = Len(last.was.inner) + 1
        /\ SubSeq(inner, 1, Len(inner) - 1) = last.was.inner
        /\ inner[Len(inner)] = last.was.mitch
        /\ active = last.was.active

C7_Witness ==
    /\ last.op = "insert"
    /\ Len(inner) = 2
    /\ inner[1].connected
    /\ ~inner[2].connected

\* C8: a connect that fails leaves the session Disconnected and leaves no link
\* open: a link the call opened is closed again by it.
C8_FailedConnectLeavesNoLink ==
    (last.op = "connect" /\ last.res = "Err") =>
        /\ ~inner[last.idx + 1].connected
        /\ \A j \in 1..Len(log) :
              (log[j].op = "connect" /\ log[j].ok) =>
                  \E k \in (j + 1)..Len(log) : log[k].op = "disconnect" /\ log[k].ok

\* C9: poll_state, start_recording and stop_recording leave the connection
\* state of the session as it was before the call, whatever their result.
C9_OnlyConnectAndDisconnectChangeConnection ==
    /\ last.op = "update" =>
          \A i \in Sessions :
              last.polls[i].res # "NotPolled" => last.polls[i].conn = last.polls[i].was
    /\ (last.op \in {"start_recording", "stop_recording"} /\ InBounds(inner, last.idx)) =>
          inner[last.idx + 1].connected = last.was

C9_Witness ==
    /\ last.op = "update"
    /\ \E i \in Sessions :
          /\ last.polls[i].res = "Err"
          /\ last.polls[i].was
          /\ last.polls[i].disc = "Ok"

\* C10: a poll of a Connected session first writes the GetState frame
\* <<130, 0>>, then reads, and a successful poll stores the state whose wire
\* code is the byte at offset 4 of the frame read (<<0, 0, 0, 0, 2>> stores
\* SysIdle); a poll of a Disconnected session makes no radio call, stores None
\* and succeeds.
C10_PollStoresDecodedState ==
    last.op = "update" =>
        \A i \in Sessions :
            LET io == CallsOf(i, {"write", "read"}) IN
            last.polls[i].res # "NotPolled" =>
                IF last.polls[i].conn
                THEN /\ Len(io) >= 1
                     /\ io[1].op = "write"
                     /\ io[1].data = <<130, 0>>
                     /\ io[1].ok => (Len(io) = 2 /\ io[2].op = "read")
                     /\ last.polls[i].res = "Ok" =>
                           /\ io[1].ok /\ io[2].ok
                           /\ Len(io[2].data) >= 5
                           /\ inner[i].state \in MitchState
                           /\ Discriminant(inner[i].state) = io[2].data[5]
                     /\ (Len(io) = 2 /\ io[2].ok /\ io[2].data = <<0, 0, 0, 0, 2>>) =>
                           last.polls[i].res = "Ok" /\ inner[i].state = "SysIdle"
                ELSE /\ CallsOf(i, {"write", "read", "subscribe"}) = <<>>
                     /\ inner[i].state = None
                     /\ last.polls[i].res = "Ok"

C10_Witness ==
    /\ last.op = "update"
    /\ Len(inner) = 2
    /\ \E i, j \in Sessions :
          /\ last.polls[i].conn /\ last.polls[i].res = "Ok" /\ inner[i].state = "SysIdle"
          /\ ~last.polls[j].conn /\ last.polls[j].res = "Ok"

\* C11: over all 256 byte values, decoding a frame with one of the ten defined
\* codes at offset 4 returns exactly the matching operating state, and with any
\* other byte it returns an error and no state.
C11_DecodeTable ==
    last.op = "try_from" =>
        LET b == last.idx
            is(s) == last.res = "Ok" /\ last.was = s
        IN CASE b = 1   -> is("SysStartup")
             [] b = 2   -> is("SysIdle")
             [] b = 3   -> is("SysStandby")
             [] b = 4   -> is("SysLog")
             [] b = 5   -> is("SysReadout")
             [] b = 248 -> is("SysTx")
             [] b = 255 -> is("SysError")
             [] b = 240 -> is("BootStartup")
             [] b = 241 -> is("BootIdle")
             [] b = 242 -> is("BootDownload")
             [] OTHER   -> last.res = "Err" /\ last.was = None

C11_Witness ==
    /\ last.op = "try_from"
    /\ last.idx = 255
    /\ last.was = "SysError"

\* C12: a GetState response shorter than 5 bytes makes the poll return an
\* error, which refresh_all handles like any other poll failure (a disconnect
\* attempt, then success), and the control loop goes on running.
C12_ShortFrameIsPollFailure ==
    last.op = "update" =>
        \A i \in Sessions :
            LET rd == CallsOf(i, {"read"}) IN
            (rd # <<>> /\ rd[1].ok /\ Len(rd[1].data) < 5) =>
                /\ last.polls[i].res = "Err"
                /\ last.polls[i].disc # "None"
                /\ last.res = "Ok"
                /\ result = "Running"

\* C13: within one session commands go strictly request-then-response, over
\* every order of Tick, Connect, Disconnect, StartRecord and StopRecord: the
\* control loop runs one handler at a time, every command frame a handler
\* writes is followed by the read of its response before anything else is
\* written on that session (a read that returns an error ends the exchange),
\* and no handler returns with a frame written and no read made for it.
C13_RequestThenResponse ==
    \A i \in Sessions :
        LET io == CallsOf(i, {"write", "read"}) IN
        \A j \in 1..Len(io) :
            /\ (io[j].op = "write" /\ io[j].ok) =>
                   (j < Len(io) /\ io[j + 1].op = "read")
            /\ io[j].op = "read" =>
                   (j > 1 /\ io[j - 1].op = "write" /\ io[j - 1].ok)
            /\ (io[j].op = "write" /\ j > 1) => io[j - 1].op = "read"

C13_Witness ==
    /\ last.op \in {"start_recording", "stop_recording"}
    /\ last.res = "Ok"
    /\ LET io == CallsOf(last.idx + 1, {"write", "read"}) IN
       /\ Len(io) = 2
       /\ io[1].op = "write" /\ io[1].ok
       /\ io[2].op = "read" /\ io[2].ok

\* C14: the control loop never reads the active session of an empty registry:
\* Connect, Disconnect, StartRecord, StopRecord and the draw of the device
\* view reach get_active / get_active_mut only when the registry has a session.
C14_ActiveSessionReadIsGuarded ==
    last.op \in {"draw", "connect", "disconnect", "start_recording", "stop_recording"} =>
        ~is_empty(inner)

\* C15: an error of a user's connect, disconnect, start_recording or
\* stop_recording is not fatal and not retried: the control loop keeps running
\* for the next event, and the radio saw the failed operation once.
C15_UserErrorKeepsLoopRunning ==
    (last.op \in {"connect", "disconnect", "start_recording", "stop_recording"}
         /\ last.res = "Err") =>
        /\ result = "Running"
        /\ \A op \in {"connect", "discover_services", "disconnect", "subscribe",
                       "write", "read"} :
              Len(CallsOf(last.idx + 1, {op})) <= 1

\* the events of kind ev in the channel
InFlight(ev) == SelectSeq(events, LAMBDA e : e.ev = ev)

\* C16: when the radio is not powered on at start, the discovery task emits
\* exactly one NotActive event and no Discovered event, and returns; the control
\* loop that receives NotActive ends the run with an error.
C16_NotActiveIsTerminal ==
    /\ InFlight("NotActive") # <<>> => dpc = "not_active"
    /\ dpc = "not_active" =>
          /\ created = 0
          /\ inner = <<>>
          /\ InFlight("Discovered") = <<>>
          /\ Len(InFlight("NotActive")) <= 1
          /\ (Len(InFlight("NotActive")) = 1 \/ result # "Running")
    /\ last.op = "not_active" => (dpc = "not_active" /\ result = "Err")

C16_Witness ==
    /\ dpc = "not_active"
    /\ last.op = "not_active"
    /\ result = "Err"

\* the peripherals reported so far whose case-folded name starts with "mitch"
Matching == { p \in seen : starts_with(Name(p), Prefix) }

\* C17: a discovery event of a newly seen peripheral yields a Discovered event,
\* one new session for that event, if and only if the case-folded advertised
\* name (empty when absent) starts with "mitch": "MITCH-07" yields one,
\* "other-device" and a peripheral without a name yield none.
C17_OneSessionPerMatchingDiscovery ==
    /\ Matching = seen \cap {1}
    /\ created <= Cardinality(Matching)
    /\ (last.op = "device_discovered" /\ last.res = "Ok") =>
           created = Cardinality(Matching)

\* C18: the discovery task keeps running across bad events: after a discovery
\* event that does not match or is malformed (the peripheral lookup or the
\* property fetch fails) the task is still scanning, and once the scan has
\* started it returns only when the discovery stream has ended.
C18_BadEventsAreIgnored ==
    /\ last.op = "device_discovered" => dpc \in {"scan", "sleep1"}
    /\ seen # {} => dpc # "failed"

\* C19: no two sessions of the registry refer to the same radio peripheral, so
\* what one session does to its link never touches the link of another.
C19_SessionsOwnTheirPeripheral ==
    \A i, j \in Sessions : i # j => inner[i].per # inner[j].per

\* session i was Connected, its poll in the refresh_all just made failed and
\* the disconnect attempt that followed succeeded
DisconnectSucceeded(i) ==
    /\ last.op = "update"
    /\ i \in Sessions
    /\ last.polls[i].was
    /\ last.polls[i].res = "Err"
    /\ last.polls[i].disc = "Ok"

\* session i is Disconnected with operating state None
Settled(i) == i \in Sessions /\ ~inner[i].connected /\ inner[i].state = None

\* C20: while ticks keep arriving, a Connected session is polled by every
\* refresh_all that reaches it; once the disconnect attempt after a failed poll
\* has succeeded, the session becomes Disconnected with operating state None
\* (unless the user connects it again or the run ends first), and a session
\* that is Disconnected with state None stays so until a user Connect on it.
C20_FailedLinkSettles ==
    /\ [](last.op = "update" =>
            \A i \in Sessions :
                (last.polls[i].res # "NotPolled" /\ last.polls[i].was) =>
                    CallsOf(i, {"write"}) # <<>>)
    /\ \A i \in 1..MaxSessions :
          DisconnectSucceeded(i) ~>
              (Settled(i) \/ result # "Running" \/ last.op = "connect")
    /\ [][\A i \in Sessions :
             (Settled(i) /\ ~(last'.op = "connect" /\ last'.idx + 1 = i)) =>
                 (~inner'[i].connected /\ inner'[i].state = None)]_vars

C20_Witness ==
    \E i \in Sessions :
        /\ DisconnectSucceeded(i)
        /\ inner[i].state = "SysIdle"
        /\ ~inner[i].connected
        /\ ~radio.link[inner[i].per]

\* C21: a session becomes Connected only in a connect() call whose radio
\* connect and service discovery both succeeded, and connect() on a Connected
\* session makes no radio call; so a Connected session has its command
\* characteristic discovered, and a session gets an operating state only while
\* Connected: one that was never connected has state None from Mitch::new on.
C21_ConnectedOnlyAfterDiscovery ==
    /\ [](\A i \in Sessions : inner[i].connected => radio.chars[inner[i].per])
    /\ []((last.op = "connect" /\ InBounds(inner, last.idx) /\ last.was) =>
              (last.res = "Ok" /\ log = <<>> /\ inner[last.idx + 1].connected))
    /\ [][\A i \in 1..Len(inner') :
             /\ i > Len(inner) =>
                    (~inner'[i].connected /\ inner'[i].state = None)
             /\ (i <= Len(inner) /\ ~inner[i].connected /\ inner'[i].connected) =>
                    /\ last'.op = "connect" /\ last'.idx + 1 = i /\ last'.res = "Ok"
                    /\ Len(log') = 2
                    /\ \A j \in 1..2 : log'[j].s = i /\ log'[j].ok
                    /\ log'[1].op = "connect" /\ log'[2].op = "discover_services"
             /\ (i <= Len(inner) /\ inner'[i].state # inner[i].state
                    /\ inner'[i].state # None) =>
                    (inner[i].connected /\ last'.op = "update")]_vars

C21_Witness ==
    /\ last.op = "connect"
    /\ last.res = "Ok"
    /\ ~last.was
    /\ Len(inner) = 2
    /\ inner[last.idx + 1].connected
    /\ \E j \in Sessions : ~inner[j].connected /\ inner[j].state = None

====
